---- MODULE Spec2Model ----
(***************************************************************************)
(* Model of src/main.rs: a two-source rotating playbin controller.         *)
(* main resolves two channels through an external resolver, loads the      *)
(* first URL into a playbin, registers a bus watch and a recurring timer   *)
(* with the GLib main loop, runs the loop and finally sets the playbin to  *)
(* Null.  Strings that the program inspects (resolver output) are          *)
(* sequences of one-character strings; "xFF" stands for a byte that is not *)
(* valid UTF-8.                                                            *)
(***************************************************************************)
EXTENDS Integers, Sequences, FiniteSets, TLC

\* ---------------------------------------------------------------- bounds
MaxArgs == 2
MaxOut == 2
MaxTicks == 3
MaxQueue == 2

\* ------------------------------------------------------------- alphabets
Channels == {"x", "y"}
Whitespace == {" ", "\n"}
BadByte == "xFF"
Bytes == {"a"} \cup Whitespace \cup {BadByte}
Messages == {"Eos", "Error", "Other"}

RECURSIVE SeqsUpTo(_, _)
SeqsUpTo(S, n) ==
    IF n = 0 THEN {<<>>}
    ELSE LET shorter == SeqsUpTo(S, n - 1)
         IN shorter \cup {Append(s, c) : s \in {t \in shorter : Len(t) = n - 1}, c \in S}

ArgLists == SeqsUpTo(Channels, MaxArgs)
Outputs == SeqsUpTo(Bytes, MaxOut)

\* ------------------------------------------------------- error messages
ErrInit == "gstreamer init failed"
ErrArg1 == "missing first twitch channel"
ErrArg2 == "missing second twitch channel"
ErrSpawn == "failed to run streamlink"
ErrResolve == "streamlink failed to resolve stream URL"
ErrUtf8 == "invalid utf-8 sequence"
ErrEmpty == "streamlink returned an empty stream URL"
ErrMake == "failed to create gstreamer playbin"
ErrBus == "missing gstreamer bus"
ErrState == "state change failed"
ErrWatch == "bus already has a watch"
ErrIndex == "index out of bounds"
NoError == ""

\* exit code of a Rust process that panicked
PanicCode == 101

\* ------------------------------------------------------ pure functions
\* str::trim: strip leading and trailing whitespace
RECURSIVE TrimStart(_)
TrimStart(s) ==
    IF s # <<>> /\ Head(s) \in Whitespace THEN TrimStart(Tail(s)) ELSE s

RECURSIVE TrimEnd(_)
TrimEnd(s) ==
    IF s # <<>> /\ s[Len(s)] \in Whitespace
    THEN TrimEnd(SubSeq(s, 1, Len(s) - 1)) ELSE s

TrimStartOnly(s) == TrimStart(s)

Trim(s) == TrimEnd(TrimStart(s))

\* every byte of s is whitespace
AllWs(s) == \A i \in 1..Len(s) : s[i] \in Whitespace

\* String::from_utf8 succeeds iff every byte is valid
ValidUtf8(s) == \A i \in 1..Len(s) : s[i] # BadByte

\* format!("https://twitch.tv/{channel}")
StreamUrl(channel) == <<"https://twitch.tv/", channel>>

Ok(v) == [ok |-> TRUE, val |-> v, err |-> NoError]
Err(e) == [ok |-> FALSE, val |-> <<>>, err |-> e]

\* outcome of running the resolver: spawned (the command could be run),
\* success (its exit status), stdout (what it printed)
ResolverRuns ==
    {[spawned |-> FALSE, success |-> FALSE, stdout |-> <<>>]}
    \cup [spawned : {TRUE}, success : BOOLEAN, stdout : Outputs]

resolve_hls_url_NoEmptyCheck(run) ==
    IF ~run.spawned THEN Err(ErrSpawn)
    ELSE IF ~run.success THEN Err(ErrResolve)
    ELSE IF ~ValidUtf8(run.stdout) THEN Err(ErrUtf8)
    ELSE Ok(Trim(run.stdout))

resolve_hls_url(run) ==
    IF ~run.spawned THEN Err(ErrSpawn)
    ELSE IF ~run.success THEN Err(ErrResolve)
    ELSE IF ~ValidUtf8(run.stdout) THEN Err(ErrUtf8)
    ELSE IF Trim(run.stdout) = <<>> THEN Err(ErrEmpty)
    ELSE Ok(Trim(run.stdout))

\* state.index = (state.index + 1) % state.urls.len()
NextIndexNoWrap(i, n) == i + 1

NextIndex(i, n) == (i + 1) % n

\* main takes channel_one and channel_two from the arguments
RequiredArgsOne == 2 - 1

RequiredArgs == 2

\* --------------------------------------------------------------- state
VARIABLES
    pc,             \* position of main
    args,           \* command-line arguments after the program name
    channels,       \* channel_one, channel_two
    hls_urls,       \* resolved URLs, in argument order
    resolveCalls,   \* stream URLs handed to the resolver so far
    resolverFailed, \* a resolver run exited non-success or printed only whitespace
    pipeline,       \* the playbin element exists
    uri,            \* the playbin's "uri" property
    requested,      \* last state requested with set_state ("Void": none yet)
    watch,          \* bus watch: "none", "active" or "removed"
    state,          \* SwitchState {urls, index}; urls = <<>> before it is built
    timerArmed,     \* the recurring timeout source is attached
    running,        \* the main loop's is_running flag
    pending,        \* sources still to dispatch in the current loop iteration
    tpc,            \* position inside the timer closure
    next_url,       \* the timer closure's local next_url
    busq,           \* messages queued on the bus
    ticks,          \* number of timer dispatches so far
    quitLog,        \* messages whose handling called loop.quit()
    callFailed,     \* the timer closure's latest set_state call returned Err
    exitCode,       \* process exit code, -1 while the process runs
    failure,        \* the error main returned, NoError if none
    rin,            \* input of a stand-alone resolver run
    rout            \* its result

vars == <<pc, args, channels, hls_urls, resolveCalls, resolverFailed, pipeline,
          uri, requested, watch, state, timerArmed, running, pending, tpc,
          next_url, busq, ticks, quitLog, callFailed, exitCode, failure, rin,
          rout>>

startupVars == <<args, channels, hls_urls, resolveCalls, resolverFailed>>
backendVars == <<pipeline, uri, requested>>
loopVars == <<watch, state, timerArmed, running, pending, tpc, next_url, busq,
              ticks, quitLog, callFailed>>
pureVars == <<rin, rout>>

NoUri == <<>>
NoState == [urls |-> <<>>, index |-> 0]
NoRun == [spawned |-> FALSE, success |-> FALSE, stdout |-> <<>>]

Init ==
    /\ pc = "init"
    /\ args \in ArgLists
    /\ channels = <<>>
    /\ hls_urls = <<>>
    /\ resolveCalls = <<>>
    /\ resolverFailed = FALSE
    /\ pipeline = FALSE
    /\ uri = NoUri
    /\ requested = "Void"
    /\ watch = "none"
    /\ state = NoState
    /\ timerArmed = FALSE
    /\ running = FALSE
    /\ pending = <<>>
    /\ tpc = "idle"
    /\ next_url = NoUri
    /\ busq = <<>>
    /\ ticks = 0
    /\ quitLog = <<>>
    /\ callFailed = FALSE
    /\ exitCode = -1
    /\ failure = NoError
    /\ rin = NoRun
    /\ rout = Err(NoError)

\* main returns Err(e): the process ends with exit code 1
Fail(e) ==
    /\ pc' = "done"
    /\ exitCode' = 1
    /\ failure' = e

Goto(l) ==
    /\ pc' = l
    /\ UNCHANGED <<exitCode, failure>>

\* gst::init()?
GstInit ==
    /\ pc = "init"
    /\ \E ok \in BOOLEAN : IF ok THEN Goto("args") ELSE Fail(ErrInit)
    /\ UNCHANGED <<startupVars, backendVars, loopVars, pureVars>>

\* args.next().ok_or(..)? twice
ParseArgs ==
    /\ pc = "args"
    /\ IF Len(args) >= RequiredArgs
       THEN /\ channels' = SubSeq(args, 1, RequiredArgs)
            /\ Goto("resolve")
       ELSE /\ channels' = channels
            /\ Fail(IF Len(args) = 0 THEN ErrArg1 ELSE ErrArg2)
    /\ UNCHANGED <<args, hls_urls, resolveCalls, resolverFailed, backendVars,
                   loopVars, pureVars>>

\* the channel the k-th resolver call is made for
ChannelForFirst(chs, k) == chs[1]

ChannelFor(chs, k) == chs[k]

\* where main goes after the k-th of n resolver calls succeeded: the playbin
\* is made once the whole vector is built
AfterResolveFirst(k, n) == "make"

AfterResolve(k, n) == IF k = n THEN "make" ELSE "resolve"

\* one element of vec![resolve_hls_url(&channel_one)?, resolve_hls_url(&channel_two)?]
Resolve ==
    /\ pc = "resolve"
    /\ Len(hls_urls) < Len(channels)
    /\ \E run \in ResolverRuns :
         LET r == resolve_hls_url(run)
         IN /\ resolveCalls' = Append(resolveCalls,
                                      StreamUrl(ChannelFor(channels, Len(hls_urls) + 1)))
            /\ resolverFailed' = (resolverFailed \/
                  (run.spawned /\ (~run.success \/ AllWs(run.stdout))))
            /\ IF r.ok
               THEN /\ hls_urls' = Append(hls_urls, r.val)
                    /\ Goto(AfterResolve(Len(hls_urls) + 1, Len(channels)))
               ELSE /\ hls_urls' = hls_urls
                    /\ Fail(r.err)
    /\ UNCHANGED <<args, channels, backendVars, loopVars, pureVars>>

\* gst::ElementFactory::make("playbin").build().map_err(..)?
MakePlaybin ==
    /\ pc = "make"
    /\ \E ok \in BOOLEAN :
         IF ok THEN pipeline' = TRUE /\ Goto("set_uri")
         ELSE pipeline' = pipeline /\ Fail(ErrMake)
    /\ UNCHANGED <<startupVars, uri, requested, loopVars, pureVars>>

InitialUrlLast(urls) == urls[Len(urls)]

InitialUrl(urls) == urls[1]

\* playbin.set_property("uri", hls_urls[0].clone())
SetInitialUri ==
    /\ pc = "set_uri"
    /\ uri' = InitialUrl(hls_urls)
    /\ Goto("bus")
    /\ UNCHANGED <<startupVars, pipeline, requested, loopVars, pureVars>>

\* playbin.bus().ok_or("missing gstreamer bus")?
GetBus ==
    /\ pc = "bus"
    /\ \E ok \in BOOLEAN : IF ok THEN Goto("play") ELSE Fail(ErrBus)
    /\ UNCHANGED <<startupVars, backendVars, loopVars, pureVars>>

\* playbin.set_state(gst::State::Playing)?
Play ==
    /\ pc = "play"
    /\ requested' = "Playing"
    /\ \E ok \in BOOLEAN : IF ok THEN Goto("add_watch") ELSE Fail(ErrState)
    /\ UNCHANGED <<startupVars, pipeline, uri, loopVars, pureVars>>

\* MainLoop::new(None, false); bus.add_watch(closure)?
\* The value add_watch returns is dropped at the end of the statement; where
\* that value is a watch guard, dropping it removes the watch again.
AddWatch ==
    /\ pc = "add_watch"
    /\ \E ok \in BOOLEAN :
         IF ok THEN watch' \in {"active", "removed"} /\ Goto("mkstate")
         ELSE watch' = watch /\ Fail(ErrWatch)
    /\ UNCHANGED <<startupVars, backendVars, state, timerArmed, running, pending,
                   tpc, next_url, busq, ticks, quitLog, callFailed,
                   pureVars>>

\* Rc::new(RefCell::new(SwitchState { urls: hls_urls, index: 0, player }))
MakeState ==
    /\ pc = "mkstate"
    /\ state' = [urls |-> hls_urls, index |-> 0]
    /\ Goto("timeout_add")
    /\ UNCHANGED <<startupVars, backendVars, watch, timerArmed, running, pending,
                   tpc, next_url, busq, ticks, quitLog, callFailed,
                   pureVars>>

\* glib::timeout_add_seconds_local(SWITCH_SECONDS, closure)
TimeoutAdd ==
    /\ pc = "timeout_add"
    /\ timerArmed' = TRUE
    /\ Goto("run")
    /\ UNCHANGED <<startupVars, backendVars, watch, state, running, pending, tpc,
                   next_url, busq, ticks, quitLog, callFailed,
                   pureVars>>

\* ----------------------------------------------------------- main loop
\* The loop calls one closure at a time and waits for it to return.
IdleAlways(t) == TRUE

Idle(t) == t = "idle"

\* Sources the loop finds ready at the start of an iteration, in the order
\* they were attached (bus watch first, timer second).  Readiness of the
\* timer depends on elapsed time; a bus source with a queued message is ready.
IterationSources(busReady, timerReady) ==
    {p \in {<<"bus">>, <<"timer">>, <<"bus", "timer">>} :
        /\ \A i \in 1..Len(p) : (p[i] = "bus" => busReady) /\ (p[i] = "timer" => timerReady)
        /\ busReady => p[1] = "bus"}

\* the match in the bus watch: Eos and Error call loop_clone.quit()
QuitsOnEosOnly(m) == m = "Eos"

Quits(m) == m \in {"Eos", "Error"}

\* both closures return glib::ControlFlow::Continue
WatchReturn == "Continue"
TimerReturn == "Continue"

\* main_loop.run() is entered
RunLoop ==
    /\ pc = "run"
    /\ running' = TRUE
    /\ Goto("loop")
    /\ UNCHANGED <<startupVars, backendVars, watch, state, timerArmed, pending,
                   tpc, next_url, busq, ticks, quitLog, callFailed,
                   pureVars>>

\* one iteration of the loop starts: it collects the ready sources
LoopIterate ==
    /\ pc = "loop"
    /\ running
    /\ Idle(tpc)
    /\ pending = <<>>
    /\ pending' \in IterationSources(watch = "active" /\ busq # <<>>,
                                     timerArmed /\ ticks < MaxTicks)
    /\ UNCHANGED <<pc, exitCode, failure, startupVars, backendVars, watch, state,
                   timerArmed, running, tpc, next_url, busq, ticks, quitLog, callFailed,
                   pureVars>>

\* a bus watch that also moves on to the next source when it quits
DispatchBusAdvancing ==
    /\ pc = "loop"
    /\ Idle(tpc)
    /\ pending # <<>>
    /\ Head(pending) = "bus"
    /\ busq # <<>>
    /\ pending' = Tail(pending)
    /\ busq' = Tail(busq)
    /\ IF Quits(Head(busq))
       THEN /\ running' = FALSE
            /\ quitLog' = Append(quitLog, Head(busq))
       ELSE UNCHANGED <<running, quitLog>>
    /\ watch' = IF WatchReturn = "Continue" THEN watch ELSE "removed"
    /\ state' = [state EXCEPT !.index = NextIndex(state.index, Len(state.urls))]
    /\ UNCHANGED <<pc, exitCode, failure, startupVars, backendVars,
                   timerArmed, tpc, next_url, ticks, callFailed, pureVars>>

\* the bus watch closure handles one message
DispatchBus ==
    /\ pc = "loop"
    /\ Idle(tpc)
    /\ pending # <<>>
    /\ Head(pending) = "bus"
    /\ busq # <<>>
    /\ pending' = Tail(pending)
    /\ busq' = Tail(busq)
    /\ IF Quits(Head(busq))
       THEN /\ running' = FALSE
            /\ quitLog' = Append(quitLog, Head(busq))
       ELSE UNCHANGED <<running, quitLog>>
    /\ watch' = IF WatchReturn = "Continue" THEN watch ELSE "removed"
    /\ UNCHANGED <<pc, exitCode, failure, startupVars, backendVars, state,
                   timerArmed, tpc, next_url, ticks, callFailed, pureVars>>

\* let next_url = state.urls[state.index].clone()
NextUrlStale(urls, old, new) == urls[old + 1]

NextUrl(urls, old, new) == urls[new + 1]

\* timer closure: borrow_mut, advance the index, read next_url; indexing
\* outside the vector panics and aborts the process
TickBegin ==
    /\ pc = "loop"
    /\ Idle(tpc)
    /\ pending # <<>>
    /\ Head(pending) = "timer"
    /\ pending' = Tail(pending)
    /\ ticks' = ticks + 1
    /\ LET i == NextIndex(state.index, Len(state.urls))
       IN /\ state' = [state EXCEPT !.index = i]
          /\ IF i + 1 \in DOMAIN state.urls
             THEN /\ next_url' = NextUrl(state.urls, state.index, i)
                  /\ tpc' = "set_ready"
                  /\ UNCHANGED <<pc, exitCode, failure>>
             ELSE /\ next_url' = next_url
                  /\ tpc' = tpc
                  /\ pc' = "done"
                  /\ exitCode' = PanicCode
                  /\ failure' = ErrIndex
    /\ UNCHANGED <<startupVars, backendVars, watch, timerArmed, running, busq,
                   quitLog, callFailed,
                   pureVars>>

\* "let _ =" discards the result of set_state: the closure goes on whether
\* the call succeeded or not
Propagated(ok) == ok

Swallowed(ok) == TRUE

\* the intermediate state a switch requests first
StopStatePaused == "Paused"

StopState == "Ready"

\* let _ = state.player.set_state(gst::State::Ready)
TickSetReady ==
    /\ tpc = "set_ready"
    /\ requested' = StopState
    /\ \E ok \in BOOLEAN :
         /\ callFailed' = ~ok
         /\ IF Swallowed(ok)
            THEN tpc' = "set_uri" /\ timerArmed' = timerArmed
            ELSE tpc' = "idle" /\ timerArmed' = FALSE
    /\ UNCHANGED <<pc, exitCode, failure, startupVars, pipeline, uri, watch, state,
                   running, pending, next_url, busq, ticks, quitLog, pureVars>>

\* state.player.set_property("uri", next_url)
TickSetUri ==
    /\ tpc = "set_uri"
    /\ uri' = next_url
    /\ tpc' = "set_playing"
    /\ UNCHANGED <<pc, exitCode, failure, startupVars, pipeline, requested, watch,
                   state, timerArmed, running, pending, next_url, busq, ticks,
                   quitLog, callFailed,
                   pureVars>>

\* let _ = state.player.set_state(gst::State::Playing); ControlFlow::Continue
TickSetPlaying ==
    /\ tpc = "set_playing"
    /\ requested' = "Playing"
    /\ tpc' = "idle"
    /\ \E ok \in BOOLEAN :
         /\ callFailed' = ~ok
         /\ timerArmed' = (Swallowed(ok) /\ TimerReturn = "Continue")
    /\ UNCHANGED <<pc, exitCode, failure, startupVars, pipeline, uri, watch, state,
                   running, pending, next_url, busq, ticks, quitLog, pureVars>>

\* main_loop.run() returns once is_running is false and the iteration is over
LoopReturn ==
    /\ pc = "loop"
    /\ ~running
    /\ Idle(tpc)
    /\ pending = <<>>
    /\ Goto("teardown")
    /\ UNCHANGED <<startupVars, backendVars, loopVars, pureVars>>

\* the state main requests after the loop returned
TeardownStateReady == "Ready"

TeardownState == "Null"

\* playbin.set_state(gst::State::Null)?; Ok(())
Teardown ==
    /\ pc = "teardown"
    /\ requested' = TeardownState
    /\ \E ok \in BOOLEAN :
         IF ok THEN pc' = "done" /\ exitCode' = 0 /\ failure' = failure
         ELSE Fail(ErrState)
    /\ UNCHANGED <<startupVars, pipeline, uri, loopVars, pureVars>>

\* the playbin posts a message on its bus (from its own threads)
PostMessage ==
    /\ pc # "done"
    /\ pipeline
    /\ requested \in {"Playing", "Ready"}
    /\ Len(busq) < MaxQueue
    /\ \E m \in Messages : busq' = Append(busq, m)
    /\ UNCHANGED <<pc, exitCode, failure, startupVars, backendVars, watch, state,
                   timerArmed, running, pending, tpc, next_url, ticks, quitLog, callFailed,
                   pureVars>>

Next ==
    \/ GstInit
    \/ ParseArgs
    \/ Resolve
    \/ MakePlaybin
    \/ SetInitialUri
    \/ GetBus
    \/ Play
    \/ AddWatch
    \/ MakeState
    \/ TimeoutAdd
    \/ RunLoop
    \/ LoopIterate
    \/ DispatchBus
    \/ TickBegin
    \/ TickSetReady
    \/ TickSetUri
    \/ TickSetPlaying
    \/ LoopReturn
    \/ Teardown
    \/ PostMessage

Spec == Init /\ [][Next]_vars

\* main runs each statement it reaches, and the running loop keeps iterating
\* and calls every closure it has collected; the playbin posts what it likes
Fairness ==
    /\ WF_vars(GstInit) /\ WF_vars(ParseArgs) /\ WF_vars(Resolve)
    /\ WF_vars(MakePlaybin) /\ WF_vars(SetInitialUri) /\ WF_vars(GetBus)
    /\ WF_vars(Play) /\ WF_vars(AddWatch) /\ WF_vars(MakeState)
    /\ WF_vars(TimeoutAdd) /\ WF_vars(RunLoop) /\ WF_vars(LoopIterate)
    /\ WF_vars(DispatchBus) /\ WF_vars(TickBegin) /\ WF_vars(TickSetReady)
    /\ WF_vars(TickSetUri) /\ WF_vars(TickSetPlaying) /\ WF_vars(LoopReturn)
    /\ WF_vars(Teardown)

FairSpec == Spec /\ Fairness

\* ------------------------------------------- the resolver on its own
ResolveInit ==
    /\ pc = "init"
    /\ args \in {<<c>> : c \in Channels}
    /\ channels = <<>>
    /\ hls_urls = <<>>
    /\ resolveCalls = <<>>
    /\ resolverFailed = FALSE
    /\ pipeline = FALSE
    /\ uri = NoUri
    /\ requested = "Void"
    /\ watch = "none"
    /\ state = NoState
    /\ timerArmed = FALSE
    /\ running = FALSE
    /\ pending = <<>>
    /\ tpc = "idle"
    /\ next_url = NoUri
    /\ busq = <<>>
    /\ ticks = 0
    /\ quitLog = <<>>
    /\ callFailed = FALSE
    /\ exitCode = -1
    /\ failure = NoError
    /\ rin \in ResolverRuns
    /\ rout = Err(NoError)

\* resolve_hls_url applied to one resolver run
ResolveOnce ==
    /\ pc = "init"
    /\ Goto("resolved")
    /\ resolveCalls' = Append(resolveCalls, StreamUrl(args[1]))
    /\ rout' = resolve_hls_url(rin)
    /\ UNCHANGED <<args, channels, hls_urls, resolverFailed, backendVars, loopVars, rin>>

ResolveNext == ResolveOnce

ResolveSpec == ResolveInit /\ [][ResolveNext]_vars

\* ================================================================ claims
HasState == state.urls # <<>>
IndexInRange == state.index + 1 \in DOMAIN state.urls

\* C1: with a source list of length n >= 1, after k timer ticks the index is
\* in [0, n) and equals k mod n: ticks visit 0, 1, ..., n-1, 0, 1, ...
C1_IndexCyclic ==
    HasState =>
        /\ state.index \in 0..(Len(state.urls) - 1)
        /\ state.index = ticks % Len(state.urls)

\* a tick has wrapped the index around to 0 and a further tick has advanced it
C1_Witness ==
    /\ HasState
    /\ ticks > Len(state.urls)
    /\ state.index = 1

\* C2: whenever no handler is being dispatched the playbin's uri is
\* sources[current_index]; with sources [A, B] the first tick leaves index 1
\* and target B, the second tick index 0 and target A.
C2_TargetIsCurrent ==
    /\ (pc \in {"bus", "play", "add_watch", "mkstate"} => uri = hls_urls[1])
    /\ (HasState /\ IndexInRange /\ tpc = "idle") =>
          /\ uri = state.urls[state.index + 1]
          /\ (ticks = 1 /\ Len(state.urls) = 2) => (state.index = 1 /\ uri = state.urls[2])
          /\ (ticks = 2 /\ Len(state.urls) = 2) => (state.index = 0 /\ uri = state.urls[1])

\* two distinct sources, two completed ticks: the target is back at the first
C2_Witness ==
    /\ HasState
    /\ tpc = "idle"
    /\ ticks = 2
    /\ Len(state.urls) = 2
    /\ state.urls[1] # state.urls[2]
    /\ uri = state.urls[1]

\* C3: initialization with [u1, u2] sets the target to u1, requests Playing
\* and sets current_index = 0, all before the first tick can be dispatched.
C3_InitBeforeFirstTick ==
    /\ (pc \notin {"loop", "teardown", "done"}) => (ticks = 0 /\ pending = <<>> /\ tpc = "idle")
    /\ (pc \in {"run", "loop"} /\ ticks = 0) =>
          /\ Len(hls_urls) = 2
          /\ uri = hls_urls[1]
          /\ requested = "Playing"
          /\ state = [urls |-> hls_urls, index |-> 0]

\* the first tick is about to be dispatched, the two sources differ
C3_Witness ==
    /\ pc = "loop"
    /\ ticks = 0
    /\ pending = <<"timer">>
    /\ hls_urls[1] # hls_urls[2]
    /\ uri = hls_urls[1]

\* what a step may do when a bus message is handled or quit was requested
C4_Step ==
    /\ Len(quitLog') <= 1
    /\ (Len(busq') < Len(busq) /\ Head(busq) \in {"Eos", "Error"}) =>
          (~running' /\ quitLog' = <<Head(busq)>>)
    /\ quitLog # <<>> =>
          /\ ~running'
          /\ quitLog' = quitLog
          /\ Len(busq') >= Len(busq)
          /\ (pending = <<>> => pending' = <<>>)
          /\ (busq' # busq => UNCHANGED <<pc, exitCode, failure, startupVars,
                                          backendVars, watch, state, timerArmed,
                                          running, pending, tpc, next_url,
                                          ticks, quitLog, callFailed>>)

\* C4: handling an Eos or Error message sets the quit flag, exactly once per
\* run, and the loop starts no further iteration; a further Eos or Error
\* message arriving after quit was requested changes nothing but the queue.
C4_ShutdownOnce == [][C4_Step]_vars

\* the run ended after one quit while a second Eos or Error sat in the queue
C4_Witness ==
    /\ pc = "done"
    /\ Len(quitLog) = 1
    /\ busq # <<>>
    /\ Head(busq) \in {"Eos", "Error"}

\* C5: the exit code is 0 when the session ends by Eos, non-zero when it ends
\* by an Error message, and non-zero on every startup error.
C5_ExitCodes ==
    pc = "done" =>
        /\ (quitLog = <<"Error">> => exitCode # 0)
        /\ (quitLog = <<"Eos">> /\ failure = NoError => exitCode = 0)
        /\ (quitLog = <<>> => exitCode # 0)

C7_Step ==
    tpc \in {"set_uri", "set_playing"} =>
          /\ ticks' = ticks
          /\ pending' = pending
          /\ Len(busq') >= Len(busq)
          /\ quitLog' = quitLog
          /\ running' = running
          /\ pc' = pc
          /\ state' = state
          /\ requested' \in {requested, "Playing"}

\* C7: between set_state(Ready) and set_state(Playing) of one switch nothing
\* else happens: no other tick starts, no bus message is handled, quit is not
\* called, the loop does not return and Null is not requested.
C7_SwitchUninterrupted == [][C7_Step]_vars

\* an Eos message is queued on a watched bus in the middle of a switch
C7_Witness ==
    /\ tpc = "set_uri"
    /\ watch = "active"
    /\ busq # <<>>
    /\ Head(busq) = "Eos"

\* C8: whenever the pipeline was created, Null is requested before the
\* process exits, also after a failed earlier operation.
C8_TeardownAlways ==
    (pc = "done" /\ pipeline) => requested = "Null"

\* C9: after a resolver failure (non-success status or whitespace-only
\* output) nothing is initialized and the process has ended with an error.
C9_NoInitAfterResolverFailure ==
    resolverFailed =>
        /\ pc = "done"
        /\ exitCode # 0
        /\ failure \in {ErrResolve, ErrEmpty}
        /\ ~pipeline
        /\ uri = NoUri
        /\ requested = "Void"
        /\ watch = "none"
        /\ ~timerArmed
        /\ ~running
        /\ state = NoState
        /\ ticks = 0

\* the first channel resolved, the second printed nothing usable
C9_Witness ==
    /\ resolverFailed
    /\ Len(hls_urls) = 1
    /\ failure = ErrEmpty

\* r is s without its leading and trailing whitespace
IsTrimOf(r, s) ==
    /\ r # <<>> => (r[1] \notin Whitespace /\ r[Len(r)] \notin Whitespace)
    /\ \E i, j \in 0..Len(s) :
          /\ i + j <= Len(s)
          /\ r = SubSeq(s, i + 1, Len(s) - j)
          /\ AllWs(SubSeq(s, 1, i))
          /\ AllWs(SubSeq(s, Len(s) - j + 1, Len(s)))

\* C10 as stated: non-success status gives ResolutionFailed, success with
\* whitespace-only output gives EmptyResult, anything else gives the trimmed
\* output.
C10_ResolveOriginal ==
    (pc = "resolved" /\ rin.spawned) =>
        IF ~rin.success THEN rout = Err(ErrResolve)
        ELSE IF AllWs(rin.stdout) THEN rout = Err(ErrEmpty)
        ELSE rout.ok /\ IsTrimOf(rout.val, rin.stdout)

\* C10 amended: as stated, except that successful output which is not valid
\* UTF-8 gives an error instead of a URL.
C10_ResolveUtf8 ==
    (pc = "resolved" /\ rin.spawned) =>
        IF ~rin.success THEN rout = Err(ErrResolve)
        ELSE IF AllWs(rin.stdout) THEN rout = Err(ErrEmpty)
        ELSE IF ~ValidUtf8(rin.stdout) THEN ~rout.ok /\ rout.err \notin {ErrResolve, ErrEmpty}
        ELSE rout.ok /\ rout.val # <<>> /\ IsTrimOf(rout.val, rin.stdout)

\* a successful run whose output had whitespace to trim
C10_Witness ==
    /\ pc = "resolved"
    /\ rout.ok
    /\ Len(rout.val) < Len(rin.stdout)

\* what a step may do when a set_state call of a switch fails, and what the
\* tick after a failed call does
C11_Step ==
    /\ (tpc \in {"set_ready", "set_playing"} /\ tpc' # tpc /\ callFailed') =>
          /\ tpc' = (IF tpc = "set_ready" THEN "set_uri" ELSE "idle")
          /\ quitLog' = quitLog
          /\ running' = running
          /\ timerArmed'
          /\ pc' = pc
          /\ exitCode' = exitCode
          /\ state' = state
          /\ ticks' = ticks
          /\ pending' = pending
    /\ (callFailed /\ ticks' # ticks) =>
          /\ ticks' = ticks + 1
          /\ state'.index = (state.index + 1) % Len(state.urls)
          /\ next_url' = state.urls[state'.index + 1]
          /\ tpc' = "set_ready"

\* C11: a failed set_state call during a switch is swallowed: it does not
\* call quit, stop the loop, disarm the timer or get retried; the index has
\* advanced and the next tick performs the next switch as usual.
C11_SwitchFailureSwallowed == [][C11_Step]_vars

\* the second tick has begun although the first tick's last call failed
C11_Witness ==
    /\ callFailed
    /\ ticks = 2
    /\ tpc = "set_ready"
    /\ state.index = 0

EosOrErrorQueued == \E i \in 1..Len(busq) : busq[i] \in {"Eos", "Error"}

C13_LoopExitsOnlyOnEvent ==
    /\ (pc = "teardown" \/ (pc = "done" /\ requested = "Null")) => quitLog # <<>>
    /\ (pc = "loop" /\ quitLog = <<>>) => running
    /\ pc = "loop" => (timerArmed /\ watch = "active")

\* what a step may change of the rotation state
C14_Step ==
    /\ Len(busq') < Len(busq) =>
          /\ state' = state
          /\ hls_urls' = hls_urls
          /\ uri' = uri
          /\ requested' = requested
    /\ HasState => state'.urls = state.urls
    /\ pc \notin {"init", "args", "resolve"} => hls_urls' = hls_urls
    /\ state'.index # state.index => (ticks' = ticks + 1 /\ tpc = "idle" /\ tpc' # "idle")

\* C14: handling a bus message leaves the index, the source list, the uri and
\* the requested state as they are; only a timer tick changes the index, and
\* no handler changes the source list.
C14_RotationFrame == [][C14_Step]_vars

\* an Error message was handled after one switch: index and target stayed
C14_Witness ==
    /\ quitLog = <<"Error">>
    /\ ticks = 1
    /\ tpc = "idle"
    /\ state.index = 1
    /\ state.urls[1] # state.urls[2]
    /\ uri = state.urls[2]

\* when a resolver call may be made, and what exists only after all of them
C15_Step ==
    /\ resolveCalls' # resolveCalls =>
          /\ pc = "resolve"
          /\ ~pipeline /\ ~pipeline'
          /\ requested = "Void" /\ requested' = "Void"
          /\ ~running /\ ~running'
    /\ (pipeline' \/ requested' # "Void" \/ running') =>
          /\ Len(resolveCalls') = Len(channels')
          /\ Len(hls_urls') = Len(channels')
          /\ Len(channels') = RequiredArgs

\* C15: every resolver call completes before the pipeline is created, before
\* playback is requested and before the loop starts; none is made afterwards.
C15_ResolveBeforePlayback == [][C15_Step]_vars

\* both resolver calls were made and the loop has dispatched a tick
C15_Witness ==
    /\ pc = "loop"
    /\ ticks > 0
    /\ Len(resolveCalls) = 2

\* what a step may do once Null was requested, and how a run that quit ends
C16_Step ==
    /\ requested = "Null" =>
          /\ requested' = "Null"
          /\ uri' = uri
          /\ ticks' = ticks
          /\ state' = state
    /\ (pc' = "done" /\ quitLog' # <<>>) => requested' = "Null"

\* C16: after Null was requested nothing requests Ready or Playing or changes
\* the uri; a run that ends after shutdown was requested ends with Null as
\* the last requested state.
C16_NothingAfterTeardown == [][C16_Step]_vars

\* a run with switches ended after quit
C16_Witness ==
    /\ pc = "done"
    /\ quitLog # <<>>
    /\ ticks > 0
    /\ requested = "Null"

\* the order of backend operations at startup and in a tick
C17_Step ==
    /\ uri' # uri => requested # "Playing"
    /\ (pc = "set_uri" /\ pc' # pc) => (requested = "Void" /\ uri' = hls_urls[1])
    /\ (pc = "play" /\ pc' # pc) => (requested' = "Playing" /\ uri' = uri)
    /\ (tpc = "set_ready" /\ tpc' # tpc) =>
          (requested' = "Ready" /\ uri' = uri /\ tpc' = "set_uri")
    /\ (tpc = "set_uri" /\ tpc' # tpc) =>
          (requested = "Ready" /\ requested' = "Ready" /\ uri' = next_url
             /\ tpc' = "set_playing")
    /\ (tpc = "set_playing" /\ tpc' # tpc) =>
          (requested' = "Playing" /\ uri' = uri /\ tpc' = "idle")

\* C17: the uri is set only while the last requested state is not Playing:
\* before the first Playing request at startup, and in every tick in the
\* order Ready, set uri, Playing, also when both sources are equal.
C17_TargetSetWhileStopped == [][C17_Step]_vars

\* a switch between two equal sources has set the uri after Ready
C17_Witness ==
    /\ tpc = "set_playing"
    /\ requested = "Ready"
    /\ state.urls[1] = state.urls[2]
    /\ uri = next_url

ResolverErrors == {ErrSpawn, ErrResolve, ErrUtf8, ErrEmpty}

\* C18: the resolver is called at most once per channel, in argument order,
\* and not again after a failed call.
C18_ResolverCalls ==
    pc # "resolved" =>
        /\ Len(resolveCalls) <= Len(channels)
        /\ \A i \in 1..Len(resolveCalls) : resolveCalls[i] = StreamUrl(args[i])
        /\ failure \in ResolverErrors =>
              (pc = "done" /\ Len(resolveCalls) = Len(hls_urls) + 1)
        /\ failure \notin ResolverErrors => Len(resolveCalls) = Len(hls_urls)

\* the first of two different channels failed: the second was never tried
C18_Witness ==
    /\ Len(args) >= 2
    /\ args[1] # args[2]
    /\ failure = ErrResolve
    /\ resolveCalls = <<StreamUrl(args[1])>>

====
